---- MODULE Spec2Model ----
(***************************************************************************)
(* A model of src/ringbuffer/buffer.c: a ring buffer of bytes with two     *)
(* unmasked uint32_t cursors (head: read, tail: write), a power-of-two     *)
(* size, a separator search and a "make contiguous" operation.             *)
(*                                                                         *)
(* The cursors are CursorBits wide instead of 32 and wrap modulo           *)
(* 2^CursorBits, bytes are 0..MaxByte.  Byte arrays are sequences: the C   *)
(* index p of an array is element p + 1 of the sequence.                   *)
(*                                                                         *)
(* Every action is one call.  op, arg, sep, ret, out, scanned and oob      *)
(* record the last call and what it gave back; fifo, scen and sent are     *)
(* history variables, and so are loc (where each buffered byte lies in     *)
(* r->buf), alloc, released and live (the calls to malloc and free).  pc   *)
(* leaves "run" when the program ends: "abort" (a failed assert, or the    *)
(* allocator refusing a free), "segv" (a write through NULL), "undefined"  *)
(* (signed overflow in buffer_search), "freed" (buffer_free), "nobuf"      *)
(* (buffer_new returned NULL); "start" is the program before buffer_new.   *)
(* Storage malloc returns holds arbitrary bytes.                           *)
(***************************************************************************)
EXTENDS Integers, Sequences, FiniteSets, TLC

\* ------------------------------------------------------------------ bounds
\* width of uint32_t / int in the model (32 in the source)
CursorBits == 4
\* bytes are 0..MaxByte
MaxByte == 1
\* buffer_new is called with sz in 0..MaxReq
MaxReq == 3
\* buffer_search is called with seplen in 1..MaxSepLen
MaxSepLen == 2

Byte == 0..MaxByte

\* ------------------------------------------------------- machine arithmetic
RECURSIVE Pow2(_)
Pow2(n) == IF n = 0 THEN 1 ELSE 2 * Pow2(n - 1)

\* number of values of a uint32_t
Mod == Pow2(CursorBits)

\* largest int
IntMax == Pow2(CursorBits - 1) - 1

\* unsigned wrap-around of a uint32_t expression
U32(x) == x % Mod

\* a & b on naturals
RECURSIVE BitAnd(_, _)
BitAnd(a, b) ==
    IF a = 0 \/ b = 0 THEN 0
    ELSE (a % 2) * (b % 2) + 2 * BitAnd(a \div 2, b \div 2)

min(lth, rth) == IF lth < rth THEN lth ELSE rth

is_power_of_two(num) == num >= 2 /\ BitAnd(num, num - 1) = 0

\* the number of right shifts that take num to 0
RECURSIVE ShiftCount(_)
ShiftCount(num) == IF num = 0 THEN 0 ELSE 1 + ShiftCount(num \div 2)

\* 1U << i: the values the shift can give.  A shift by the width of the type
\* is undefined: a machine that masks the count gives 1, one that does not, 0.
ShiftLeftOne(i) == IF i < CursorBits THEN {Pow2(i)} ELSE {0, 1}

\* the values roundup_power_of_two(num) can return
roundup_power_of_two(num) ==
    IF num = 0 THEN {2} ELSE ShiftLeftOne(ShiftCount(num))

\* the sizes buffer_new can give a buffer requested with sz
NewSize(sz) == IF is_power_of_two(sz) THEN {sz} ELSE roundup_power_of_two(sz)

\* all byte arrays of length n
Bytes(n) == [1..n -> Byte]

\* memcpy(dst + d, src + s, n) on arrays; a byte outside src reads as 0 and a
\* byte outside dst is not written (neither happens in buffer_add/remove)
memcpy(dst, d, src, s, n) ==
    [k \in 1..Len(dst) |->
        IF d < k /\ k <= d + n
        THEN (IF s + (k - d) \in 1..Len(src) THEN src[s + (k - d)] ELSE 0)
        ELSE dst[k]]

\* the n bytes of src from C index s
Slice(src, s, n) == [k \in 1..n |-> IF s + k \in 1..Len(src) THEN src[s + k] ELSE 0]

\* the sequence q without its first n elements
Drop(q, n) == IF n >= Len(q) THEN <<>> ELSE SubSeq(q, n + 1, Len(q))

\* the first n elements of q
Take(q, n) == IF n >= Len(q) THEN q ELSE SubSeq(q, 1, n)

\* ------------------------------------------------------------------- state
VARIABLES
    size,     \* r->size
    head,     \* r->head, the read cursor
    tail,     \* r->tail, the write cursor
    buf,      \* the bytes r->buf points to
    bufAt,    \* "inline": r->buf is the tail of the record's block; "heap": a block of its own
    pc,       \* "run", or how the program ended
    fifo,     \* history: the bytes appended and not yet removed or drained, oldest first
    op,       \* the last call
    arg,      \* its sz argument
    sep,      \* buffer_search's separator
    ret,      \* its return value (buffer_write_atmost: the index in buf of the pointer returned)
    out,      \* the bytes buffer_remove copied to data
    scanned,  \* buffer_search: the candidate offsets it examined
    oob,      \* buffer_search: it read outside r->buf
    scen,     \* history: progress of write_atmost, drain(len), add(size), remove(size)
    sent,     \* history: the bytes of that add
    loc,      \* history: the index in buf where each byte of fifo lies, -1 when overwritten
    alloc,    \* history: the last call's malloc: "none", "ok" or "null"
    released, \* history: what the last call passed to free: "rec", "heap", or "inline"
    live      \* history: the blocks malloc returned and free has not taken back

vars == <<size, head, tail, buf, bufAt, pc, fifo, op, arg, sep, ret, out,
          scanned, oob, scen, sent, loc, alloc, released, live>>

\* --------------------------------------------------------- occupancy queries
\* a faulty variant: the positions in the storage are compared, not the cursors
rb_isemptyMasked == BitAnd(head, size - 1) = BitAnd(tail, size - 1)

rb_isempty == head = tail

\* a faulty variant: the one-slot-free convention of the comment above the struct
rb_isfullOneSlot == U32(tail + 1) % size = head % size

rb_isfull == size = U32(tail - head)

rb_len == U32(tail - head)

\* a faulty variant: the difference of the cursors is not reduced to the width
rb_remainNoWrap == size - tail + head

rb_remain == U32(size - tail + head)

\* r->head & (r->size - 1), r->tail & (r->size - 1)
HeadPos == BitAnd(head, size - 1)

TailPos == BitAnd(tail, size - 1)

\* ------------------------------------------------------------- construction
Init ==
    /\ \E sz \in 0..MaxReq : size \in NewSize(sz)
    /\ head = 0
    /\ tail = 0
    /\ buf \in Bytes(size)
    /\ bufAt = "inline"
    /\ pc = "run"
    /\ fifo = <<>>
    /\ op = "new"
    /\ arg = 0
    /\ sep = <<>>
    /\ ret = 0
    /\ out = <<>>
    /\ scanned = 0
    /\ oob = FALSE
    /\ scen = 0
    /\ sent = <<>>
    /\ loc = <<>>
    /\ alloc = "ok"
    /\ released = {}
    /\ live = {"rec"}

\* ---------------------------------------------------------------- buffer_add
\* a faulty variant: the guard compares with the size, not with the free space
AddRejectsIgnoresLen(sz) == sz > size

\* a faulty variant: the guard rejects an append that fills the buffer exactly
AddRejectsOffByOne(sz) == sz >= rb_remain

\* the guard of buffer_add: sz > rb_remain(r)
AddRejects(sz) == sz > rb_remain

\* a faulty variant: the first memcpy is not cut at the end of r->buf
AddFirstNoWrap(sz) == sz

\* the number of bytes of the first memcpy
AddFirst(sz) == min(sz, size - TailPos)

\* r->buf after the two memcpy calls
\* a faulty variant: the second memcpy copies from data, not from data + i
AddCopyFromStart(data) ==
    LET dsz == Len(data)
        i == min(dsz, size - BitAnd(tail, size - 1))
    IN  memcpy(memcpy(buf, BitAnd(tail, size - 1), data, 0, i), 0, data, 0, dsz - i)

AddCopy(data) ==
    LET i == AddFirst(Len(data))
    IN  memcpy(memcpy(buf, TailPos, data, 0, i), 0, data, i, Len(data) - i)

AddTail(sz) == U32(tail + sz)

\* the index of r->buf the two memcpy calls write byte k of data to
AddIndex(k, sz) == IF k < AddFirst(sz) THEN TailPos + k ELSE k - AddFirst(sz)

\* loc after an append of sz bytes: what lay where it wrote is overwritten
AddLoc(sz) ==
    LET i == AddFirst(sz)
        written(p) == (TailPos <= p /\ p < TailPos + i) \/ (0 <= p /\ p < sz - i)
    IN  [j \in 1..Len(loc) |-> IF written(loc[j]) THEN -1 ELSE loc[j]]
        \o [k \in 1..sz |-> AddIndex(k - 1, sz)]

BufferAdd ==
    /\ pc = "run"
    /\ \E sz \in 0..(size + 1) :
        /\ op' = "add"
        /\ arg' = sz
        /\ IF AddRejects(sz)
           THEN /\ ret' = -1
                /\ scen' = 0
                /\ sent' = <<>>
                /\ UNCHANGED <<buf, tail, fifo, loc>>
           ELSE /\ loc' = AddLoc(sz)
                /\ tail' = AddTail(sz)
                /\ ret' = 0
                /\ scen' = IF scen = 2 /\ sz = size THEN 3 ELSE 0
                /\ \E data \in Bytes(sz) :
                    /\ buf' = AddCopy(data)
                    /\ fifo' = fifo \o data
                    /\ sent' = IF scen = 2 /\ sz = size THEN data ELSE <<>>
    /\ sep' = <<>>
    /\ out' = <<>>
    /\ scanned' = 0
    /\ oob' = FALSE
    /\ alloc' = "none"
    /\ released' = {}
    /\ UNCHANGED <<size, head, bufAt, pc, live>>

\* ------------------------------------------------------------- buffer_remove
\* a faulty variant: the requested size is not clamped to the bytes buffered
RemoveSizeNoClamp(sz) == sz

\* sz = min(sz, r->tail - r->head)
RemoveSize(sz) == min(sz, U32(tail - head))

RemoveFirst(sz) == min(sz, size - HeadPos)

\* data after the two memcpy calls, sz already clamped
RemoveCopy(sz) ==
    LET i == RemoveFirst(sz)
    IN  Slice(buf, HeadPos, i) \o Slice(buf, 0, sz - i)

RemoveHead(sz) == U32(head + sz)

BufferRemove ==
    /\ pc = "run"
    /\ \E sz \in 0..(size + 1) :
        /\ op' = "remove"
        /\ arg' = sz
        /\ IF rb_isempty
           THEN \* assert(!rb_isempty(r)) fails
                /\ pc' = "abort"
                /\ ret' = 0
                /\ out' = <<>>
                /\ scen' = 0
                /\ UNCHANGED <<head, fifo, loc>>
           ELSE LET n == RemoveSize(sz)
                IN  /\ out' = RemoveCopy(n)
                    /\ loc' = Drop(loc, n)
                    /\ head' = RemoveHead(n)
                    /\ ret' = n
                    /\ fifo' = Drop(fifo, n)
                    /\ scen' = IF scen = 3 /\ sz = size THEN 4 ELSE 0
                    /\ pc' = pc
    /\ sep' = <<>>
    /\ scanned' = 0
    /\ oob' = FALSE
    /\ alloc' = "none"
    /\ released' = {}
    /\ UNCHANGED <<size, tail, buf, bufAt, sent, live>>

\* -------------------------------------------------------------- buffer_drain
\* a faulty variant: the request is not clamped to the buffered length
DrainSizeNoClamp(sz) == sz

DrainSize(sz) == IF sz > rb_len THEN rb_len ELSE sz

BufferDrain ==
    /\ pc = "run"
    /\ \E sz \in 0..(size + 1) :
        /\ op' = "drain"
        /\ arg' = sz
        /\ head' = U32(head + DrainSize(sz))
        /\ ret' = DrainSize(sz)
        /\ fifo' = Drop(fifo, DrainSize(sz))
        /\ loc' = Drop(loc, DrainSize(sz))
        /\ scen' = IF scen = 1 /\ sz = rb_len THEN 2 ELSE 0
    /\ sep' = <<>>
    /\ out' = <<>>
    /\ scanned' = 0
    /\ oob' = FALSE
    /\ sent' = <<>>
    /\ alloc' = "none"
    /\ released' = {}
    /\ UNCHANGED <<size, tail, buf, bufAt, pc, live>>

\* ---------------------------------------------------------------- buffer_len
BufferLen ==
    /\ pc = "run"
    /\ op' = "len"
    /\ ret' = rb_len
    /\ arg' = 0
    /\ sep' = <<>>
    /\ out' = <<>>
    /\ scanned' = 0
    /\ oob' = FALSE
    /\ scen' = 0
    /\ sent' = <<>>
    /\ alloc' = "none"
    /\ released' = {}
    /\ UNCHANGED <<size, head, tail, buf, bufAt, pc, fifo, loc, live>>

\* ------------------------------------------------------------- buffer_search
\* memcmp(r->buf + b, sp + s, n) == 0: the answers the call can give.  A byte
\* of r->buf that differs decides it; bytes read past the end of r->buf are
\* not the program's, so a comparison they decide can go either way.
MemcmpEq(b, sp, s, n) ==
    LET inside == {k \in 1..n : b + k <= size}
    IN  IF \E k \in inside : buf[b + k] # sp[s + k] THEN {FALSE}
        ELSE IF inside = 1..n THEN {TRUE}
        ELSE {TRUE, FALSE}

\* memcmp(r->buf + b, ..., n) reads past the end of r->buf
MemcmpOut(b, n) == n > 0 /\ b + n > size

\* the bound of the loop, rb_len(r) - seplen as a uint32_t
SearchBound(seplen) == U32(rb_len - seplen)

\* pos of candidate offset i
SearchPos(i) == BitAnd(U32(head + i), size - 1)

\* the candidate at pos crosses the end of r->buf
SearchCrosses(pos, seplen) == pos + seplen > size

\* The runs of the loop from offset i: [ret, n, o] is a run that returns ret
\* after examining n more candidates, o telling whether it read outside
\* r->buf; ret = -1 stands for a run in which i++ or i+seplen overflows int.
RECURSIVE SearchFrom(_, _)
SearchFrom(i, sp) ==
    LET seplen == Len(sp)
        pos == SearchPos(i)
        Later(o) == {[ret |-> x.ret, n |-> x.n + 1, o |-> x.o \/ o] :
                        x \in SearchFrom(i + 1, sp)}
        Found(o) == {[ret |-> IF i + seplen > IntMax THEN -1 ELSE i + seplen,
                      n |-> 1, o |-> o]}
        Direct(o) ==
            LET d == MemcmpEq(pos, sp, 0, seplen)
                o2 == o \/ MemcmpOut(pos, seplen)
            IN  (IF TRUE \in d THEN Found(o2) ELSE {})
                \cup (IF FALSE \in d THEN Later(o2) ELSE {})
    IN  IF i > IntMax THEN {[ret |-> -1, n |-> 0, o |-> FALSE]}
        ELSE IF ~(i <= SearchBound(seplen)) THEN {[ret |-> 0, n |-> 0, o |-> FALSE]}
        ELSE IF SearchCrosses(pos, seplen)
        THEN IF FALSE \in MemcmpEq(pos, sp, 0, size - pos)
             THEN {[ret |-> 0, n |-> 1, o |-> FALSE]}
             ELSE LET w == MemcmpEq(0, sp, size - pos, pos + seplen - size)
                      o1 == MemcmpOut(0, pos + seplen - size)
                  IN  (IF TRUE \in w THEN Found(o1) ELSE {})
                      \cup (IF FALSE \in w THEN Direct(o1) ELSE {})
        ELSE Direct(FALSE)

BufferSearch ==
    /\ pc = "run"
    /\ \E seplen \in 1..MaxSepLen : \E sp \in Bytes(seplen) :
        \E x \in SearchFrom(0, sp) :
            /\ op' = "search"
            /\ arg' = seplen
            /\ sep' = sp
            /\ scanned' = x.n
            /\ oob' = x.o
            /\ IF x.ret = -1
               THEN ret' = 0 /\ pc' = "undefined"
               ELSE ret' = x.ret /\ pc' = pc
    /\ out' = <<>>
    /\ scen' = 0
    /\ sent' = <<>>
    /\ alloc' = "none"
    /\ released' = {}
    /\ UNCHANGED <<size, head, tail, buf, bufAt, fifo, loc, live>>

\* ------------------------------------------------------- buffer_write_atmost
\* the test that chooses the path that allocates
\* a faulty variant: equal positions take the path that replaces the storage
RelayoutOrEqual == TailPos <= HeadPos

Relayout == TailPos < HeadPos

\* temp after the two memcpy calls, fresh being what malloc returned
RelayoutCopy(fresh) ==
    memcpy(memcpy(fresh, 0, buf, HeadPos, size - HeadPos),
           size - HeadPos, buf, 0, TailPos)

\* a faulty variant: temp is a copy of the storage index by index
RelayoutIndexInPlace(p) == p

\* the index of temp the two memcpy calls copy index p of r->buf to, -1 if none
RelayoutIndex(p) ==
    IF p >= HeadPos THEN p - HeadPos
    ELSE IF p < TailPos THEN size - HeadPos + p
    ELSE -1

\* loc after the storage is replaced by temp
RelayoutLoc == [j \in 1..Len(loc) |-> IF loc[j] = -1 THEN -1 ELSE RelayoutIndex(loc[j])]

BufferWriteAtmost ==
    /\ pc = "run"
    /\ op' = "write_atmost"
    /\ IF Relayout
       THEN \E got \in BOOLEAN :
            IF ~got
            THEN \* temp is NULL and memcpy writes size - rpos > 0 bytes to it
                 /\ pc' = "segv"
                 /\ ret' = 0
                 /\ alloc' = "null"
                 /\ released' = {}
                 /\ UNCHANGED <<buf, bufAt, loc, live>>
            ELSE \E fresh \in Bytes(size) :
                 \* free(r->buf) of the "inline" storage is a free of a pointer
                 \* malloc never returned: the allocator may abort or go on
                 \E freed \in (IF bufAt = "inline" THEN {"abort", "run"} ELSE {"run"}) :
                     /\ pc' = freed
                     /\ ret' = 0
                     /\ alloc' = "ok"
                     /\ released' = {bufAt}
                     /\ live' = live \cup {"heap"}
                     /\ IF freed = "run"
                        THEN /\ buf' = RelayoutCopy(fresh)
                             /\ bufAt' = "heap"
                             /\ loc' = RelayoutLoc
                        ELSE UNCHANGED <<buf, bufAt, loc>>
       ELSE /\ ret' = HeadPos
            /\ alloc' = "none"
            /\ released' = {}
            /\ UNCHANGED <<buf, bufAt, pc, loc, live>>
    /\ scen' = 1
    /\ arg' = 0
    /\ sep' = <<>>
    /\ out' = <<>>
    /\ scanned' = 0
    /\ oob' = FALSE
    /\ sent' = <<>>
    /\ UNCHANGED <<size, head, tail, fifo>>

\* --------------------------------------------------------------- buffer_free
BufferFree ==
    /\ pc = "run"
    /\ pc' = "freed"
    /\ op' = "free"
    /\ arg' = 0
    /\ ret' = 0
    /\ sep' = <<>>
    /\ out' = <<>>
    /\ scanned' = 0
    /\ oob' = FALSE
    /\ scen' = 0
    /\ sent' = <<>>
    /\ alloc' = "none"
    /\ released' = {"rec"}
    /\ live' = live \ {"rec"}
    /\ UNCHANGED <<size, head, tail, buf, bufAt, fifo, loc>>

\* ---------------------------------------------------------------- buffer_new
\* the program before buffer_new
InitNew ==
    /\ size = 0
    /\ head = 0
    /\ tail = 0
    /\ buf = <<>>
    /\ bufAt = "inline"
    /\ pc = "start"
    /\ fifo = <<>>
    /\ op = "none"
    /\ arg = 0
    /\ sep = <<>>
    /\ ret = 0
    /\ out = <<>>
    /\ scanned = 0
    /\ oob = FALSE
    /\ scen = 0
    /\ sent = <<>>
    /\ loc = <<>>
    /\ alloc = "none"
    /\ released = {}
    /\ live = {}

BufferNew ==
    /\ pc = "start"
    /\ op' = "new"
    /\ \E sz \in 0..(Mod - 1) : \E got \in BOOLEAN :
        /\ arg' = sz
        /\ IF ~got
           THEN \* malloc returned NULL and so does buffer_new
                /\ pc' = "nobuf"
                /\ alloc' = "null"
                /\ UNCHANGED <<size, buf, live>>
           ELSE /\ size' \in NewSize(sz)
                /\ buf' \in Bytes(size')
                /\ pc' = "run"
                /\ alloc' = "ok"
                /\ live' = {"rec"}
    /\ head' = 0
    /\ tail' = 0
    /\ bufAt' = "inline"
    /\ UNCHANGED <<fifo, sep, ret, out, scanned, oob, scen, sent, loc, released>>

\* ------------------------------------------------------------ specifications
Next ==
    \/ BufferAdd
    \/ BufferRemove
    \/ BufferDrain
    \/ BufferSearch
    \/ BufferLen
    \/ BufferWriteAtmost
    \/ BufferFree

Spec == Init /\ [][Next]_vars

\* the producer and consumer calls alone
NextRing ==
    \/ BufferAdd
    \/ BufferRemove
    \/ BufferDrain
    \/ BufferLen

SpecRing == Init /\ [][NextRing]_vars

\* the producer and consumer calls with buffer_search
NextSearch ==
    \/ BufferAdd
    \/ BufferRemove
    \/ BufferDrain
    \/ BufferSearch

SpecSearch == Init /\ [][NextSearch]_vars

\* construction and destruction
NextNew ==
    \/ BufferNew
    \/ BufferFree

SpecNew == InitNew /\ [][NextNew]_vars

\* ------------------------------------------------------------------ claims
\* the separator sp occurs in q at offset i
OccursAt(sp, q, i) ==
    /\ i + Len(sp) <= Len(q)
    /\ \A k \in 1..Len(sp) : q[i + k] = sp[k]

\* C1 (FIFO): the number of buffered bytes is the bytes appended minus the
\* bytes taken out, and every buffer_remove that returns copies out the oldest
\* bytes appended and not yet taken out, in the order they were appended, also
\* when they lie across the physical end of r->buf.
C1_Fifo ==
    /\ [](Len(fifo) = rb_len)
    /\ [][(op' = "remove" /\ pc' = "run") =>
            /\ Len(out') = ret'
            /\ out' = Take(fifo, ret')
            /\ fifo = out' \o fifo']_vars

\* an append of size bytes that straddled the end of r->buf came back whole
C1_Witness ==
    /\ op = "remove"
    /\ pc = "run"
    /\ ret = size
    /\ HeadPos # 0
    /\ \E k \in 1..(size - 1) : out[k] # out[k + 1]

\* C2 (occupancy): in every state any interleaving of the calls reaches,
\* 0 <= tail - head <= size, the difference taken modulo the cursor width.
C2_Occupancy == 0 <= rb_len /\ rb_len <= size

\* buffer_write_atmost was called on a full buffer whose write cursor has
\* wrapped past the cursor width
C2_Witness ==
    /\ op = "write_atmost"
    /\ pc = "run"
    /\ rb_len = size
    /\ tail < head

\* C3 (all or nothing): buffer_add returns -1 exactly when sz exceeds the free
\* space, size minus the bytes buffered, and then changes no cursor and no
\* byte; otherwise it returns 0, advances tail by sz and leaves head alone.
C3_AddAllOrNothing ==
    [][op' = "add" =>
        IF arg' > size - Len(fifo)
        THEN ret' = -1 /\ head' = head /\ tail' = tail /\ buf' = buf
        ELSE ret' = 0 /\ tail' = U32(tail + arg') /\ head' = head]_vars

\* an append was rejected although some space was free, after the cursors
\* had wrapped
C3_Witness ==
    /\ op = "add"
    /\ ret = -1
    /\ 0 < rb_remain
    /\ arg > rb_remain
    /\ tail < head

C6_SearchFindsOccurrence ==
    (/\ op = "search"
     /\ 1 <= Len(sep)
     /\ Len(sep) <= rb_len
     /\ \E i \in 0..Len(fifo) : OccursAt(sep, fifo, i))
    => (pc = "run" /\ ret # 0)

\* C7 (first match): a value r # 0 returned for a separator of length 1..len
\* has seplen <= r <= len, the buffered bytes at offsets r - seplen .. r - 1
\* are the separator, and the separator occurs at no smaller offset.
C7_SearchFirstMatch ==
    (/\ op = "search"
     /\ pc = "run"
     /\ 1 <= Len(sep)
     /\ Len(sep) <= rb_len
     /\ ret # 0)
    => /\ Len(sep) <= ret
       /\ ret <= rb_len
       /\ OccursAt(sep, fifo, ret - Len(sep))
       /\ \A i \in 0..(ret - Len(sep) - 1) : ~OccursAt(sep, fifo, i)

\* C8 (separator longer than the data): buffer_search returns 0 without
\* examining a candidate offset and without reading outside r->buf.
C8_SearchLongSeparator ==
    (op = "search" /\ Len(sep) > rb_len)
    => (pc = "run" /\ ret = 0 /\ scanned = 0 /\ ~oob)

\* C9 (contiguous view): the pointer buffer_write_atmost returns is at an
\* index q of r->buf with q + len <= size, and the len bytes from q are the
\* buffered bytes, oldest first; the path that returns r->buf + rpos is taken
\* only when the buffered bytes do not wrap (q + len <= size with q = rpos).
C9_ContiguousView ==
    (op = "write_atmost" /\ pc = "run")
    => /\ ret + rb_len <= size
       /\ Slice(buf, ret, rb_len) = fifo

\* C10 (view, then full drain): buffer_write_atmost, on either path, returns;
\* after buffer_drain(len) the buffer is empty; a following buffer_add of
\* size bytes succeeds and a following buffer_remove(size) returns those bytes.
C10_ViewDrainRoundTrip ==
    /\ (scen = 1 => pc \in {"run", "segv"})
    /\ (scen = 2 => rb_isempty)
    /\ (scen = 3 => ret = 0)
    /\ (scen = 4 => (pc = "run" /\ ret = size /\ out = sent))

\* C11 (capacity): for every request sz the cursor width can hold, buffer_new
\* gives an empty buffer, both cursors 0, whose size is the smallest power of
\* two >= max(sz, 2), a power of two other than 0 that fits the width.
C11_NewCapacity ==
    (op = "new" /\ pc = "run")
    => /\ head = 0 /\ tail = 0 /\ rb_isempty
       /\ size \in {Pow2(e) : e \in 1..(CursorBits - 1)}
       /\ size >= arg /\ size >= 2
       /\ \A e \in 1..(CursorBits - 1) : (Pow2(e) >= arg) => size <= Pow2(e)

\* C12 (allocation failure): when malloc returns NULL in buffer_write_atmost
\* the call returns (with an error) and no byte is written through the NULL
\* pointer; when it returns NULL in buffer_new there is no buffer.
C12_AllocFailureRecoverable ==
    /\ (op = "write_atmost" /\ alloc = "null") => pc = "run"
    /\ (op = "new" /\ alloc = "null") => (pc = "nobuf" /\ live = {})

\* C13 (remove on empty): the buffer is empty exactly when head = tail, which
\* is exactly when no appended byte is waiting; a buffer_remove called then,
\* whatever sz, fails its assert and returns no count, and leaves both
\* cursors and every byte of the storage as they were.
C13_RemoveOnEmpty ==
    /\ [](rb_isempty <=> Len(fifo) = 0)
    /\ [][(op' = "remove" /\ Len(fifo) = 0) =>
            /\ pc' = "abort"
            /\ out' = <<>>
            /\ head' = head /\ tail' = tail /\ buf' = buf /\ size' = size]_vars

\* a buffer whose cursors have moved is empty again and a remove was called
C13_Witness ==
    /\ op = "remove" /\ arg >= 1
    /\ pc = "abort"
    /\ head = tail /\ head > size

\* C14 (frame): tail is changed only by a buffer_add that returns 0; head only
\* by buffer_remove and buffer_drain; size by nothing; the storage r->buf
\* points to is replaced only by a buffer_write_atmost called with
\* wpos < rpos; buffer_search, buffer_len change neither cursor nor storage;
\* buffer_write_atmost changes neither cursor, and called with wpos >= rpos it
\* calls no malloc and changes no byte of the storage.
C14_Frame ==
    [][/\ (tail' # tail) => (op' = "add" /\ ret' = 0)
       /\ (head' # head) => (op' \in {"remove", "drain"})
       /\ size' = size
       /\ (bufAt' # bufAt) => (op' = "write_atmost" /\ TailPos < HeadPos)
       /\ (op' \in {"search", "len"}) =>
            (head' = head /\ tail' = tail /\ buf' = buf /\ bufAt' = bufAt
             /\ alloc' = "none" /\ released' = {})
       /\ (op' = "write_atmost") => (head' = head /\ tail' = tail)
       /\ (op' = "write_atmost" /\ TailPos >= HeadPos) =>
            (buf' = buf /\ bufAt' = bufAt /\ alloc' = "none" /\ released' = {})
      ]_vars

\* buffer_write_atmost has returned from its path with wpos >= rpos on a
\* buffer that holds bytes and whose read position is not 0
C14_Witness ==
    /\ op = "write_atmost" /\ pc = "run" /\ alloc = "none"
    /\ rb_len > 0 /\ HeadPos > 0 /\ bufAt = "inline"

\* C15 (drain clamps): buffer_drain(sz) returns min(sz, len) in every state,
\* 0 on an empty buffer included, moves head forward by exactly that count,
\* and leaves tail and the storage as they were; on a buffer that is not
\* empty the cursors end where buffer_remove(sz) would leave them.
C15_DrainClamps ==
    [][(op' = "drain") =>
        /\ pc' = "run"
        /\ ret' = (IF arg' < Len(fifo) THEN arg' ELSE Len(fifo))
        /\ head' = (head + ret') % Mod
        /\ tail' = tail /\ buf' = buf /\ size' = size
        /\ (Len(fifo) > 0) => (head' = RemoveHead(RemoveSize(arg')))]_vars

\* a drain asked for more than was buffered, was clamped, and moved head
\* past the cursor width
C15_Witness ==
    /\ op = "drain" /\ arg > ret
    /\ ret > 0 /\ head < ret

\* C16 (ownership): every pointer passed to free is a block malloc returned
\* for this buffer (never the "inline" storage, which lies inside the record's
\* block), and after buffer_free no block allocated for the buffer is live.
C16_StorageOwnership ==
    /\ "inline" \notin released
    /\ (pc = "freed") => (live = {})

\* C17 (cursor overflow): with cursors that wrap at 2^CursorBits and a size
\* that is a power of two <= 2^(CursorBits-1), every call of buffer_add,
\* buffer_remove, buffer_drain gives what a buffer with cursors that never
\* wrap gives, whose length is the count of bytes appended and not consumed:
\* the same return value, the same bytes removed, and afterwards the same
\* rb_len, rb_remain, rb_isempty, rb_isfull.
C17_CursorOverflow ==
    /\ [](/\ size <= Pow2(CursorBits - 1)
          /\ rb_len = Len(fifo)
          /\ rb_remain = size - Len(fifo)
          /\ rb_isempty <=> (Len(fifo) = 0)
          /\ rb_isfull <=> (Len(fifo) = size))
    /\ [][/\ (op' = "add") =>
               /\ ret' = (IF arg' > size - Len(fifo) THEN -1 ELSE 0)
               /\ Len(fifo') = Len(fifo) + (IF ret' = 0 THEN arg' ELSE 0)
          /\ (op' = "remove" /\ Len(fifo) > 0) =>
               /\ ret' = (IF arg' < Len(fifo) THEN arg' ELSE Len(fifo))
               /\ out' = Take(fifo, ret')
               /\ Len(fifo') = Len(fifo) - ret'
          /\ (op' = "drain") =>
               /\ ret' = (IF arg' < Len(fifo) THEN arg' ELSE Len(fifo))
               /\ Len(fifo') = Len(fifo) - ret'
         ]_vars

\* tail has wrapped past the cursor width and head has not; a remove has
\* returned bytes and left others buffered
C17_Witness ==
    /\ op = "remove" /\ ret > 0 /\ out # <<>>
    /\ tail < head
    /\ rb_len > 0

\* C18 (append writes the free region): a buffer_add that returns 0 stores
\* data[k] at index (tail + k) & (size - 1) of the storage for every
\* 0 <= k < sz, writes at no index >= size, and leaves every byte of the
\* storage that holds a byte not yet removed as it was.  For a size that is
\* a power of two, x & (size - 1) is x mod size.
C18_AddWritesFreeRegion ==
    [][(op' = "add" /\ ret' = 0) =>
        LET sz == arg'
            i == AddFirst(sz)
            data(k) == fifo'[Len(fifo) + k + 1]
        IN  /\ Len(fifo') = Len(fifo) + sz
            /\ Len(buf') = size
            \* the two memcpy calls write [tail & (size-1), .. + i) and [0, sz - i):
            \* tail & (size-1) + i <= size and sz - i <= size
            /\ i \in (sz - size)..(size - (tail % size))
            /\ \A k \in 0..(sz - 1) :
                 buf'[(((tail + k) % Mod) % size) + 1] = data(k)
            /\ \A j \in 0..(Len(fifo) - 1) :
                 LET p == ((head + j) % Mod) % size
                 IN  buf'[p + 1] = buf[p + 1]
      ]_vars

\* an append of at least two bytes to a buffer holding a byte went round the
\* end of the storage
C18_Witness ==
    /\ op = "add" /\ ret = 0 /\ arg >= 2
    /\ rb_len > arg
    /\ TailPos > 0 /\ TailPos < arg

\* C19 (search stays inside the storage): for a separator of length 1..len
\* every byte buffer_search reads lies inside r->buf and inside sep; the
\* memcmp of seplen bytes at pos is made only when pos + seplen <= size.
C19_SearchInBounds ==
    (op = "search" /\ 1 <= Len(sep) /\ Len(sep) <= rb_len) => ~oob

\* the index of r->buf that buffer_remove, buffer_search read for the
\* buffered byte at offset j
CursorIndex(j) == BitAnd((head + j) % Mod, size - 1)

\* every buffered byte lies where the cursors address it
InRingLayout == \A j \in 0..(Len(loc) - 1) : loc[j + 1] = CursorIndex(j)

\* bytes are buffered and none of them lies where the cursors address it
Stale ==
    /\ Len(loc) > 0
    /\ \A j \in 0..(Len(loc) - 1) : loc[j + 1] # CursorIndex(j)

\* C20 as stated (relayout breaks reads): whenever buffer_write_atmost has
\* taken its wpos < rpos path, the buffered byte at offset j lies at index j
\* of the new storage, and the index (head + j) & (size - 1) that a following
\* buffer_remove or buffer_search reads for it is another one.
C20_RelayoutBreaksReads ==
    (op = "write_atmost" /\ alloc = "ok" /\ pc = "run")
    => /\ \A j \in 0..(Len(loc) - 1) : loc[j + 1] = j
       /\ Stale

\* C20 amended: when buffer_write_atmost takes its wpos < rpos path on a
\* buffer whose bytes lie where the cursors address them, it leaves both
\* cursors as they were, the buffered byte at offset j lies at index j of the
\* new storage, and the index (head + j) & (size - 1) read for it is another
\* one; that stays so over every following buffer_remove, buffer_drain,
\* buffer_search that leaves a byte buffered.
C20_RelayoutBreaksReadsFromRing ==
    [][/\ (op' = "write_atmost" /\ alloc' = "ok" /\ pc' = "run" /\ InRingLayout)
          => /\ head' = head /\ tail' = tail
             /\ \A j \in 0..(Len(loc') - 1) : loc'[j + 1] = j
             /\ Stale'
       /\ (Stale /\ op' \in {"remove", "drain", "search"} /\ Len(fifo') > 0)
          => Stale'
      ]_vars

\* after a relayout a remove has read, for the oldest byte, an index of the
\* storage that held another value than that byte, and bytes remain
C20_Witness ==
    /\ op = "remove" /\ pc = "run" /\ bufAt = "heap"
    /\ ret > 0 /\ out # <<>> /\ out[1] # buf[1]
    /\ Stale
    /\ \A j \in 0..(Len(loc) - 1) : loc[j + 1] = j + ret

====
